---- MODULE Spec2Model ----
(***************************************************************************)
(* Model of the calendar HTTP facade (calendar.go): the month listing      *)
(* handler MonthEvents and the single-event handler Event with its four    *)
(* sub-handlers, over a calendar backend that stores provider events.      *)
(* One action is one HTTP request handled from start to end.               *)
(***************************************************************************)
EXTENDS Integers, Sequences, FiniteSets, TLC

\* ---------------------------------------------------------------- bounds
MaxEvents == 1          \* most events the backend stores
MaxYear == 2025         \* last year of the month tokens requested (from 2024 on)

\* ------------------------------------------------------------- constants
StatusOK == 200
StatusCreated == 201
StatusForbidden == 403
StatusNotFound == 404
StatusMethodNotAllowed == 405
StatusInternalServerError == 500

tmShortTime == "T00:00:00-04:00"
ZeroTimeText == "0001-01-01T00:00:00Z"

Methods == {"GET", "POST", "PATCH", "DELETE", "PUT"}

\* ------------------------------------------------------ time (package time)
IsLeap(y) == (y % 4 = 0) /\ ((y % 100 # 0) \/ (y % 400 = 0))

\* daysBefore[m] : days of a non-leap year before month m (1-based, 13 = all)
daysBefore == <<0, 31, 59, 90, 120, 151, 181, 212, 243, 273, 304, 334, 365>>

\* days from 0001-01-01 to January 1st of year y
daysSinceEpoch(y) ==
    LET p == y - 1 IN 365 * p + (p \div 4) - (p \div 100) + (p \div 400)

\* time.Date: months outside 1..12 are normalised into the year, days
\* outside the month carry over; the result is a day number
Date(year, month, day) ==
    LET m0 == month - 1
        y  == year + (m0 \div 12)
        m  == (m0 % 12) + 1
        leapDay == IF IsLeap(y) /\ m >= 3 THEN 1 ELSE 0
    IN daysSinceEpoch(y) + daysBefore[m] + leapDay + day - 1

\* Time.Date(): the civil date of a day number (400/100/4/1 year cycles)
absDate(abs) ==
    LET n400 == abs \div 146097
        d1   == abs - 146097 * n400
        q100 == d1 \div 36524
        n100 == q100 - (q100 \div 4)
        d2   == d1 - 36524 * n100
        n4   == d2 \div 1461
        d3   == d2 - 1461 * n4
        q1   == d3 \div 365
        n1   == q1 - (q1 \div 4)
        yday == d3 - 365 * n1
        year == 400 * n400 + 100 * n100 + 4 * n4 + n1 + 1
        leap == IsLeap(year)
        day  == IF leap /\ yday > 31 + 29 - 1 THEN yday - 1 ELSE yday
        mq   == day \div 31
        end  == daysBefore[mq + 2]
        mon  == IF day >= end THEN mq + 2 ELSE mq + 1
        begin == IF day >= end THEN end ELSE daysBefore[mq + 1]
    IN IF leap /\ yday = 31 + 29 - 1
       THEN [year |-> year, month |-> 2, day |-> 29]
       ELSE [year |-> year, month |-> mon, day |-> day - begin + 1]

\* Time.AddDate on a Time [abs, zone] whose clock is midnight
AddDate(t, years, months, days) ==
    LET c == absDate(t.abs)
    IN [abs |-> Date(c.year + years, c.month + months, c.day + days),
        zone |-> t.zone]

\* Time.Format(time.RFC3339) of a midnight Time: date, clock and zone
FormatRFC3339(t) ==
    LET c == absDate(t.abs)
    IN [year |-> c.year, month |-> c.month, day |-> c.day,
        clock |-> "00:00:00", zone |-> t.zone]

\* value of a sequence of decimal digits
RECURSIVE Atoi(_)
Atoi(ds) == IF ds = <<>> THEN 0
            ELSE 10 * Atoi(SubSeq(ds, 1, Len(ds) - 1)) + ds[Len(ds)]

\* the four digits of a year
Digits4(y) == <<y \div 1000, (y \div 100) % 10, (y \div 10) % 10, y % 10>>

\* time.ParseInLocation(tmLabelShort, yyyy-mm-01, loc): a month that is not
\* two digits in 01..12 is a parse error, which yields the zero Time (UTC)
ParseInLocation(yearPart, monthPart) ==
    IF Len(monthPart) = 2 /\ Atoi(monthPart) \in 1..12
    THEN [abs |-> Date(Atoi(yearPart), Atoi(monthPart), 1), zone |-> "Local"]
    ELSE [abs |-> 0, zone |-> "UTC"]

\* timestamps that match tmLabelLong (numeric offset); "Z" does not
WellFormedLong == {"2024-03-10T09:00:00-04:00", "2024-03-10T00:00:00-04:00"}

\* time.Parse(tmLabelLong, s) followed by Format(time.RFC3339)
ParseFormatLong(s) == IF s \in WellFormedLong THEN s ELSE ZeroTimeText


\* ------------------------------------------------------------- the data
\* the month tokens requested: none, one too short to slice, and every
\* yyyymm with mm in 00..13 (00 and 13 do not parse)
Token(y, m) == Digits4(y) \o <<m \div 10, m % 10>>
DateTokens == {<<>>, <<2, 0, 2>>} \cup {Token(y, m) : y \in 2024..MaxYear, m \in 0..13}
\* a few of them: none, too short, March 2024, a month 13
SomeDateTokens == {<<>>, <<2, 0, 2>>, Token(2024, 3), Token(2024, 13)}

\* event ids the backend hands out, and the id path parameters requested
IdOf(n) == "e" \o ToString(n)
EventIDs == {IdOf(n) : n \in 1..MaxEvents}
PathIDs == EventIDs \cup {"", "unknown"}

\* *calendar.EventDateTime; isNil is the nil pointer
NilDateTime == [isNil |-> TRUE, Date |-> "", DateTime |-> ""]
EventDateTime(date, dateTime) == [isNil |-> FALSE, Date |-> date, DateTime |-> dateTime]

\* calendar.Event, the fields this program reads or writes
ZeroEvent == [Id |-> "", Attendees |-> <<>>, ColorId |-> "", Description |-> "",
              Location |-> "", Summary |-> "", Start |-> NilDateTime, End |-> NilDateTime]

\* JSON key of each calendar.Event field
EventJSON == [Id |-> "id", Attendees |-> "attendees", ColorId |-> "colorId",
              Description |-> "description", Location |-> "location",
              Summary |-> "summary", Start |-> "start", End |-> "end"]

\* events other clients of the calendar have stored: a timed event with
\* every field set, an all-day event, a timed event in UTC ("Z")
ExternalEvents ==
    { [ZeroEvent EXCEPT !.Attendees = <<"ann@example.com">>, !.ColorId = "1",
                        !.Description = "desc", !.Location = "room",
                        !.Summary = "Standup",
                        !.Start = EventDateTime("", "2024-03-10T09:00:00-04:00"),
                        !.End = EventDateTime("", "2024-03-10T09:00:00-04:00")],
      [ZeroEvent EXCEPT !.Location = "room", !.ColorId = "9",
                        !.Start = EventDateTime("2024-03-10", ""),
                        !.End = EventDateTime("2024-03-10", "")],
      [ZeroEvent EXCEPT
                        !.Start = EventDateTime("", "2024-03-11T13:00:00Z"),
                        !.End = EventDateTime("", "2024-03-11T13:00:00Z")] }

\* the palette the backend serves: color id -> definition
Palette == [c \in {"1", "2"} |-> [Background |-> IF c = "1" THEN "#a4bdfc" ELSE "#7ae7bf"]]

\* type newEvent
ZeroNewEvent == [Color |-> "", Date |-> "", Description |-> "", Location |-> "", Summary |-> ""]
NewEvents == [Color : {"", "1"}, Date : {"", "2024-03-10"}, Description : {"", "desc"},
              Location : {"", "room"}, Summary : {"", "Standup"}]

\* request bodies: a JSON object (a key may hold a number instead of a
\* string), or text that is not JSON
JSONNumber == "#number"
Bodies == {[wellFormed |-> TRUE, json |-> e] : e \in NewEvents}
          \cup {[wellFormed |-> TRUE, json |-> [e EXCEPT !.Color = JSONNumber]] :
                    e \in {x \in NewEvents : x.Color = ""}}
          \cup {[wellFormed |-> FALSE, json |-> ZeroNewEvent]}
\* a few of them: {}, summary only, summary and date, all five keys, a
\* number as color beside summary and date, and text that is not JSON
SomeBodies ==
    {[wellFormed |-> TRUE, json |-> e] :
        e \in {ZeroNewEvent,
               [ZeroNewEvent EXCEPT !.Summary = "Standup"],
               [ZeroNewEvent EXCEPT !.Summary = "Standup", !.Date = "2024-03-10"],
               [Color |-> "1", Date |-> "2024-03-10", Description |-> "desc",
                Location |-> "room", Summary |-> "Standup"],
               [ZeroNewEvent EXCEPT !.Color = JSONNumber, !.Summary = "Standup",
                                    !.Date = "2024-03-10"]}}
    \cup {[wellFormed |-> FALSE, json |-> ZeroNewEvent]}

DecodeErrText == "json: cannot unmarshal"
BackendErrText == "googleapi: Error"

\* json.NewDecoder(r.Body).Decode(&newEv): text that is not JSON leaves the
\* struct untouched; a value of the wrong type is skipped, the other keys
\* are stored, and the error is returned
Decode(body) ==
    IF ~body.wellFormed THEN [err |-> TRUE, val |-> ZeroNewEvent]
    ELSE [err |-> \E f \in DOMAIN body.json : body.json[f] = JSONNumber,
          val |-> [f \in DOMAIN body.json |->
                     IF body.json[f] = JSONNumber THEN "" ELSE body.json[f]]]

\* ----------------------------------------------------- response helpers
\* respond(w, r, status, data): the payload is the body
respond(status, data) == [status |-> status, body |-> <<data>>]
\* respondErr(w, r, status, args...): a structured error, message optional
respondErr(status, args) ==
    [status |-> status,
     body |-> IF args = <<>> THEN <<>> ELSE <<[error |-> args[1]]>>]


\* ------------------------------------------------------------ the state
VARIABLES
    alive,      \* the service process is running
    store,      \* the backend's events of calendar "primary": id -> event
    request,    \* the request handled last
    handlers,   \* the sub-handlers Event ran for it, in order
    calls,      \* the backend calls made for it, in order
    decoded,    \* <<>> or <<the result of decoding its body>>
    responses,  \* the responses written for it, in order
    outcome     \* how its handler ended: returned, panicked, exited

vars == <<alive, store, request, handlers, calls, decoded, responses, outcome>>

\* what a handler does: the fields of the state it decides
Done(h, cs, dec, rs, out, st) ==
    [handlers |-> h, calls |-> cs, decoded |-> dec, responses |-> rs,
     outcome |-> out, store |-> st]

\* ------------------------------------------------------------ the backend
\* an event as the backend returns it under a Fields mask
Project(ev, mask) ==
    [f \in DOMAIN ev |-> IF EventJSON[f] \in mask THEN ev[f] ELSE ZeroEvent[f]]

\* the stored event of an id, with its id
Stored(st, id) == [st[id] EXCEPT !.Id = id]

\* the ids of a set in the backend's order
RECURSIVE Ordered(_)
Ordered(ids) ==
    IF ids = {} THEN <<>>
    ELSE LET least == CHOOSE n \in 1..MaxEvents :
                        /\ IdOf(n) \in ids
                        /\ \A k \in 1..(n - 1) : IdOf(k) \notin ids
         IN <<IdOf(least)>> \o Ordered(ids \ {IdOf(least)})

\* Events.List(...).Fields(mask).Do(): events.Items
ListItems(st, mask) ==
    LET ids == Ordered(DOMAIN st)
    IN [k \in 1..Len(ids) |-> Project(Stored(st, ids[k]), mask)]

\* the id Events.Insert gives a new event
FreshId(st) == IdOf(CHOOSE n \in 1..MaxEvents :
                        /\ IdOf(n) \notin DOMAIN st
                        /\ \A k \in 1..(n - 1) : IdOf(k) \in DOMAIN st)

\* Events.Insert accepts an event that has a start, while there is room
CanInsert(st, evt) == ~evt.Start.isNil /\ Cardinality(DOMAIN st) < MaxEvents

\* the store after Events.Insert(evt)
Inserted(st, evt) ==
    LET id == FreshId(st)
    IN [i \in DOMAIN st \cup {id} |-> IF i = id THEN [evt EXCEPT !.Id = ""] ELSE st[i]]

\* the store after Events.Patch(id, evt): only the fields sent change
Patched(st, id, evt) ==
    [st EXCEPT ![id] =
        [f \in DOMAIN ZeroEvent |->
            IF f # "Id" /\ evt[f] # ZeroEvent[f] THEN evt[f] ELSE st[id][f]]]

\* the store after Events.Delete(id)
Deleted(st, id) == [i \in DOMAIN st \ {id} |-> st[i]]


\* ------------------------------------------------------------ MonthEvents
\* the fields MonthEvents asks Events.List for
ListFields == {"id", "attendees", "colorId", "creator", "description", "updated",
               "start", "summary"}

\* type jEvent and the JSON key of each of its fields
ZeroJEvent == [ID |-> "", Attendees |-> <<>>, AllDay |-> FALSE, ColorBgd |-> "",
               Date |-> "", Description |-> "", Location |-> "", Summary |-> ""]
JEventTag == [ID |-> "id", Attendees |-> "attendees", AllDay |-> "allDayEvent",
              ColorBgd |-> "color", Date |-> "date", Description |-> "description",
              Location |-> "location", Summary |-> "summary"]

\* json.Marshal(i) of a calendar.Event: the keys of its non-empty fields
Marshal(i) ==
    LET present == {f \in DOMAIN i : i[f] # ZeroEvent[f]}
    IN [k \in {EventJSON[f] : f \in present} |->
            i[CHOOSE f \in present : EventJSON[f] = k]]

\* json.Unmarshal(res1, &ev): a key that is a jEvent tag sets that field
Unmarshal(json, ev) ==
    [f \in DOMAIN ev |-> IF JEventTag[f] \in DOMAIN json THEN json[JEventTag[f]] ELSE ev[f]]

\* monthGuard with the two checks in the other order
monthGuard_DateFirst(method, dt) ==
    IF Len(dt) = 0
    THEN <<respondErr(StatusForbidden, <<"invalid request, missing date">>)>>
    ELSE IF method # "GET"
    THEN <<respondErr(StatusMethodNotAllowed, <<"invalid method: " \o method>>)>>
    ELSE <<>>

\* the method and date checks that open MonthEvents: the response of an
\* early return, or none
monthGuard(method, dt) ==
    IF method # "GET"
    THEN <<respondErr(StatusMethodNotAllowed, <<"invalid method: " \o method>>)>>
    ELSE IF Len(dt) = 0
    THEN <<respondErr(StatusForbidden, <<"invalid request, missing date">>)>>
    ELSE <<>>

\* monthWindow with the month after taken as 31 days
monthWindow_Days(dtVar) ==
    LET tm == ParseInLocation(SubSeq(dtVar, 1, 4), SubSeq(dtVar, 5, Len(dtVar)))
    IN [startDte |-> FormatRFC3339(AddDate(tm, 0, 0, -7)),
        endDte   |-> FormatRFC3339(AddDate(tm, 0, 0, 31 + 14))]

\* the query window of a month token
monthWindow(dtVar) ==
    LET tm == ParseInLocation(SubSeq(dtVar, 1, 4), SubSeq(dtVar, 5, Len(dtVar)))
    IN [startDte |-> FormatRFC3339(AddDate(tm, 0, 0, -7)),
        endDte   |-> FormatRFC3339(AddDate(tm, 0, 1, 14))]

\* toJEvent with the provider fields merged into a fresh jEvent
toJEvent_FreshMerge(i, clrs) == Unmarshal(Marshal(i), ZeroJEvent)

\* the body of the loop over events.Items: one provider event to a jEvent
toJEvent(i, clrs) ==
    LET bgd == IF i.ColorId \in DOMAIN clrs THEN clrs[i.ColorId].Background ELSE ""
        ev  == IF i.Start.DateTime # ""
               THEN [ZeroJEvent EXCEPT !.ColorBgd = bgd,
                                       !.Date = ParseFormatLong(i.Start.DateTime),
                                       !.AllDay = FALSE]
               ELSE [ZeroJEvent EXCEPT !.ColorBgd = bgd,
                                       !.Date = ParseFormatLong(i.Start.Date \o tmShortTime),
                                       !.AllDay = TRUE]
    IN Unmarshal(Marshal(i), ev)

\* MonthEvents(w, r): colorsOK and listOK are the outcomes of the two
\* backend calls. log.Fatalf ends the process; slicing a short token, a nil
\* palette and a nil start panic
MonthEvents(method, dtVar, colorsOK, listOK, st) ==
    LET early == monthGuard(method, dtVar)
    IN IF Len(early) > 0 THEN Done(<<>>, <<>>, <<>>, early, "returned", st)
       ELSE IF Len(dtVar) < 4 THEN Done(<<>>, <<>>, <<>>, <<>>, "panicked", st)
       ELSE
         LET win == monthWindow(dtVar)
             cs  == << [api |-> "Colors.Get", ok |-> colorsOK],
                       [api |-> "Events.List", ok |-> listOK, fields |-> ListFields,
                        timeMin |-> win.startDte, timeMax |-> win.endDte] >>
         IN IF ~listOK THEN Done(<<>>, cs, <<>>, <<>>, "exited", st)
            ELSE
              LET items == ListItems(st, ListFields)
              IN IF Len(items) > 0
                    /\ (~colorsOK \/ \E k \in 1..Len(items) : items[k].Start.isNil)
                 THEN Done(<<>>, cs, <<>>, <<>>, "panicked", st)
                 ELSE Done(<<>>, cs, <<>>,
                           <<respond(StatusOK,
                                     [k \in 1..Len(items) |-> toJEvent(items[k], Palette)])>>,
                           "returned", st)

\* ------------------------------------------------------------------ Event
\* assembleEvent that sets no end
assembleEvent_NoEnd(s) ==
    [ZeroEvent EXCEPT
        !.Start = IF s.Date # "" THEN EventDateTime(s.Date, "") ELSE NilDateTime,
        !.ColorId = s.Color, !.Description = s.Description,
        !.Location = s.Location, !.Summary = s.Summary]

\* assembleEvent(s): newEvent -> *calendar.Event
assembleEvent(s) ==
    [ZeroEvent EXCEPT
        !.Start = IF s.Date # "" THEN EventDateTime(s.Date, "") ELSE NilDateTime,
        !.End = IF s.Date # "" THEN EventDateTime(s.Date, "") ELSE NilDateTime,
        !.ColorId = IF s.Color # "" THEN s.Color ELSE "",
        !.Description = IF s.Description # "" THEN s.Description ELSE "",
        !.Location = IF s.Location # "" THEN s.Location ELSE "",
        !.Summary = IF s.Summary # "" THEN s.Summary ELSE ""]

\* fetchEvent(w, r): log.Fatalf on a failed get ends the process
fetchEvent(eID, ok, st) ==
    LET found == ok /\ eID \in DOMAIN st
        cs == << [api |-> "Events.Get", ok |-> found, id |-> eID] >>
    IN IF ~found THEN Done(<<"fetchEvent">>, cs, <<>>, <<>>, "exited", st)
       ELSE Done(<<"fetchEvent">>, cs, <<>>, <<respond(StatusOK, Stored(st, eID))>>,
                 "returned", st)

\* createEvent that answers a body it cannot decode with 400
createEvent_RejectBadBody(body, ok, st) ==
    LET newEv == Decode(body)
        evt == assembleEvent(newEv.val)
        inserted == ok /\ CanInsert(st, evt)
        cs == << [api |-> "Events.Insert", ok |-> inserted, evt |-> evt, fields |-> {"id"}] >>
    IN IF newEv.err
       THEN Done(<<"createEvent">>, <<>>, <<newEv>>,
                 <<respondErr(400, <<DecodeErrText>>)>>, "returned", st)
       ELSE IF ~inserted
       THEN Done(<<"createEvent">>, cs, <<newEv>>,
                 <<respondErr(StatusInternalServerError, <<BackendErrText>>)>>,
                 "returned", st)
       ELSE Done(<<"createEvent">>, cs, <<newEv>>,
                 <<respond(StatusCreated, [ZeroEvent EXCEPT !.Id = FreshId(st)])>>,
                 "returned", Inserted(st, evt))

\* createEvent(w, r)
createEvent(body, ok, st) ==
    LET newEv == Decode(body)
        evt == assembleEvent(newEv.val)
        inserted == ok /\ CanInsert(st, evt)
        cs == << [api |-> "Events.Insert", ok |-> inserted, evt |-> evt, fields |-> {"id"}] >>
    IN IF ~inserted
       THEN Done(<<"createEvent">>, cs, <<newEv>>,
                 <<respondErr(StatusInternalServerError, <<BackendErrText>>)>>,
                 "returned", st)
       ELSE Done(<<"createEvent">>, cs, <<newEv>>,
                 <<respond(StatusCreated, [ZeroEvent EXCEPT !.Id = FreshId(st)])>>,
                 "returned", Inserted(st, evt))

\* updateEvent that decodes the body before it checks the id
updateEvent_DecodeFirst(eID, body, ok, st) ==
    LET pEv == Decode(body)
        evt == assembleEvent(pEv.val)
        patched == ok /\ eID \in DOMAIN st
        cs == << [api |-> "Events.Patch", ok |-> patched, id |-> eID, evt |-> evt,
                  fields |-> {"id"}] >>
    IN IF eID = ""
       THEN Done(<<"updateEvent">>, <<>>, <<pEv>>,
                 <<respondErr(StatusForbidden, <<"invalid request, missing event id">>)>>,
                 "returned", st)
       ELSE IF ~patched
       THEN Done(<<"updateEvent">>, cs, <<pEv>>,
                 <<respondErr(StatusInternalServerError, <<BackendErrText>>)>>,
                 "returned", st)
       ELSE Done(<<"updateEvent">>, cs, <<pEv>>,
                 <<respond(StatusOK, [ZeroEvent EXCEPT !.Id = eID])>>,
                 "returned", Patched(st, eID, evt))

\* updateEvent(w, r)
updateEvent(eID, body, ok, st) ==
    IF eID = ""
    THEN Done(<<"updateEvent">>, <<>>, <<>>,
              <<respondErr(StatusForbidden, <<"invalid request, missing event id">>)>>,
              "returned", st)
    ELSE
      LET pEv == Decode(body)
          evt == assembleEvent(pEv.val)
          patched == ok /\ eID \in DOMAIN st
          cs == << [api |-> "Events.Patch", ok |-> patched, id |-> eID, evt |-> evt,
                    fields |-> {"id"}] >>
      IN IF ~patched
         THEN Done(<<"updateEvent">>, cs, <<pEv>>,
                   <<respondErr(StatusInternalServerError, <<BackendErrText>>)>>,
                   "returned", st)
         ELSE Done(<<"updateEvent">>, cs, <<pEv>>,
                   <<respond(StatusOK, [ZeroEvent EXCEPT !.Id = eID])>>,
                   "returned", Patched(st, eID, evt))

\* deleteEvent(w, r)
deleteEvent(eID, ok, st) ==
    IF eID = ""
    THEN Done(<<"deleteEvent">>, <<>>, <<>>,
              <<respondErr(StatusForbidden, <<"invalid request, missing event id">>)>>,
              "returned", st)
    ELSE
      LET deleted == ok /\ eID \in DOMAIN st
          cs == << [api |-> "Events.Delete", ok |-> deleted, id |-> eID] >>
      IN IF ~deleted
         THEN Done(<<"deleteEvent">>, cs, <<>>,
                   <<respondErr(StatusInternalServerError, <<BackendErrText>>)>>,
                   "returned", st)
         ELSE Done(<<"deleteEvent">>, cs, <<>>, <<respond(StatusOK, TRUE)>>,
                   "returned", Deleted(st, eID))

\* Event with a default case that answers 405
Event_Default405(method, eID, body, ok, st) ==
    CASE method = "GET"    -> fetchEvent(eID, ok, st)
      [] method = "POST"   -> createEvent(body, ok, st)
      [] method = "PATCH"  -> updateEvent(eID, body, ok, st)
      [] method = "DELETE" -> deleteEvent(eID, ok, st)
      [] OTHER             -> Done(<<>>, <<>>, <<>>,
                                   <<respondErr(StatusMethodNotAllowed, <<"invalid method">>)>>,
                                   "returned", st)

\* Event(w, r): the switch on r.Method, which has no default case
Event(method, eID, body, ok, st) ==
    CASE method = "GET"    -> fetchEvent(eID, ok, st)
      [] method = "POST"   -> createEvent(body, ok, st)
      [] method = "PATCH"  -> updateEvent(eID, body, ok, st)
      [] method = "DELETE" -> deleteEvent(eID, ok, st)
      [] OTHER             -> Done(<<>>, <<>>, <<>>, <<>>, "returned", st)

\* ------------------------------------------------------- the state machine
\* init() and the backend as it is found: the process runs, the calendar
\* holds events of other clients, no request was handled
Init ==
    /\ alive = TRUE
    /\ \E S \in SUBSET EventIDs : store \in [S -> ExternalEvents]
    /\ request = [route |-> "none", method |-> "", date |-> <<>>, id |-> ""]
    /\ handlers = <<>>
    /\ calls = <<>>
    /\ decoded = <<>>
    /\ responses = <<>>
    /\ outcome = "none"

\* the state after a request req whose handler did d
Handled(req, d) ==
    /\ request' = req
    /\ handlers' = d.handlers
    /\ calls' = d.calls
    /\ decoded' = d.decoded
    /\ responses' = d.responses
    /\ outcome' = d.outcome
    /\ store' = d.store
    /\ alive' = (d.outcome # "exited")

\* a request on the month route, its date token one of tokens
MonthEventsRequest(tokens) ==
    /\ alive
    /\ \E method \in Methods, dt \in tokens, colorsOK \in BOOLEAN, listOK \in BOOLEAN :
         Handled([route |-> "month", method |-> method, date |-> dt, id |-> ""],
                 MonthEvents(method, dt, colorsOK, listOK, store))

\* a request on the single-event route, its method one of methods, its body
\* one of bodies, the backend answering as one of oks
EventRequest(methods, bodies, oks) ==
    /\ alive
    /\ \E method \in methods, eID \in PathIDs, body \in bodies, ok \in oks :
         Handled([route |-> "event", method |-> method, date |-> <<>>, id |-> eID],
                 Event(method, eID, body, ok, store))

\* the service, on both routes
Next == MonthEventsRequest(SomeDateTokens) \/ EventRequest(Methods, SomeBodies, BOOLEAN)

Spec == Init /\ [][Next]_vars

\* the month route alone, under every date token
NextMonth == MonthEventsRequest(DateTokens)

SpecMonth == Init /\ [][NextMonth]_vars

\* the writes of the single-event route alone, under every body, while the
\* backend refuses every write
NextWrite == EventRequest({"POST", "PATCH"}, Bodies, {FALSE})

SpecWrite == Init /\ [][NextWrite]_vars


\* ------------------------------------------------------------- properties
OnMonth == request.route = "month"
OnEvent == request.route = "event"

\* the request got exactly one response, of this status
Answered(status) == Len(responses) = 1 /\ responses[1].status = status

\* the payload of the only response
Payload == responses[1].body[1]

\* C1: when the events-list call of a month listing (GET with a date token)
\* fails, the process keeps running and the caller receives exactly one
\* error response that carries an error payload.
C1_ListFailureIsAnswered ==
    (OnMonth /\ request.method = "GET" /\ Len(request.date) > 0
       /\ Len(calls) = 2 /\ ~calls[2].ok)
    => /\ alive
       /\ Len(responses) = 1
       /\ responses[1].status >= 400
       /\ Len(responses[1].body) = 1

\* C2: DELETE or PATCH on the single-event route with an empty id is
\* answered 403, with no backend call and before the body is decoded.
C2_EmptyIdForbidden ==
    (OnEvent /\ request.method \in {"DELETE", "PATCH"} /\ request.id = "")
    => /\ Answered(StatusForbidden)
       /\ Len(calls) = 0
       /\ Len(decoded) = 0

C2_Witness ==
    /\ OnEvent /\ request.method = "PATCH" /\ request.id = ""
    /\ Answered(StatusForbidden)
    /\ handlers = <<"updateEvent">>

\* each provider field of evt is populated exactly when the request string
\* of s is non-empty, and then with that string
Sparse(s, evt) ==
    /\ evt.Start.isNil <=> s.Date = ""
    /\ evt.End.isNil <=> s.Date = ""
    /\ s.Date # "" => /\ evt.Start.Date = s.Date /\ evt.Start.DateTime = ""
                      /\ evt.End.Date = s.Date /\ evt.End.DateTime = ""
    /\ evt.ColorId = s.Color
    /\ evt.Description = s.Description
    /\ evt.Location = s.Location
    /\ evt.Summary = s.Summary
    /\ evt.Id = "" /\ evt.Attendees = <<>>

\* C3: the event that create and update send to the backend is the sparse
\* image of the decoded request: a provider field is populated iff the
\* request string is non-empty, start.date = end.date = date when date is
\* set, and a request with only summary set yields exactly summary.
C3_AssembleIsSparse ==
    (OnEvent /\ request.method \in {"POST", "PATCH"} /\ Len(decoded) = 1)
    => /\ Len(calls) = 1
       /\ calls[1].api = (IF request.method = "POST" THEN "Events.Insert" ELSE "Events.Patch")
       /\ Sparse(decoded[1].val, calls[1].evt)
       /\ decoded[1].val = [ZeroNewEvent EXCEPT !.Summary = "Standup"]
            => calls[1].evt = [ZeroEvent EXCEPT !.Summary = "Standup"]

C3_Witness ==
    /\ OnEvent /\ request.method = "PATCH" /\ Len(decoded) = 1 /\ Len(calls) = 1
    /\ decoded[1].val = [ZeroNewEvent EXCEPT !.Summary = "Standup", !.Date = "2024-03-10"]
    /\ calls[1].evt.Start.Date = "2024-03-10"
    /\ calls[1].evt.End.Date = "2024-03-10"
    /\ calls[1].evt.Location = ""

\* C4: in a 200 month listing every display event is flagged all-day
\* exactly when the stored provider event's start.dateTime is empty.
C4_AllDayIffNoDateTime ==
    (OnMonth /\ Answered(StatusOK))
    => /\ Len(Payload) = Cardinality(DOMAIN store)
       /\ \A k \in 1..Len(Payload) :
            /\ Payload[k].ID \in DOMAIN store
            /\ Payload[k].AllDay <=> (store[Payload[k].ID].Start.DateTime = "")

C4_Witness ==
    /\ OnMonth /\ Answered(StatusOK)
    /\ \E k \in 1..Len(Payload) :
         /\ Payload[k].AllDay
         /\ Payload[k].Summary = "Standup"
         /\ store[Payload[k].ID].Start.Date = "2024-03-10"

\* the days of month m of year y
DaysIn(y, m) ==
    IF m = 2 THEN (IF IsLeap(y) THEN 29 ELSE 28)
    ELSE IF m \in {4, 6, 9, 11} THEN 30 ELSE 31

\* midnight of a civil date in the local zone, as the backend receives it
LocalMidnight(y, m, d) ==
    [year |-> y, month |-> m, day |-> d, clock |-> "00:00:00", zone |-> "Local"]

\* C5: for a valid YYYYMM token the listing asks for the window from the
\* first of the month minus 7 days (the 7th day before the end of the
\* previous month) to the 15th of the following month; 202403 gives
\* 2024-02-23 and 2024-04-15.
C5_WindowOfMonth ==
    (OnMonth /\ Len(calls) = 2 /\ Len(request.date) = 6
       /\ Atoi(SubSeq(request.date, 5, 6)) \in 1..12)
    => LET y  == Atoi(SubSeq(request.date, 1, 4))
           m  == Atoi(SubSeq(request.date, 5, 6))
           py == IF m = 1 THEN y - 1 ELSE y
           pm == IF m = 1 THEN 12 ELSE m - 1
           ny == IF m = 12 THEN y + 1 ELSE y
           nm == IF m = 12 THEN 1 ELSE m + 1
       IN /\ calls[2].api = "Events.List"
          /\ calls[2].timeMin = LocalMidnight(py, pm, DaysIn(py, pm) - 6)
          /\ calls[2].timeMax = LocalMidnight(ny, nm, 15)
          /\ request.date = <<2, 0, 2, 4, 0, 3>>
               => /\ calls[2].timeMin = LocalMidnight(2024, 2, 23)
                  /\ calls[2].timeMax = LocalMidnight(2024, 4, 15)

C5_Witness ==
    /\ OnMonth /\ request.date = <<2, 0, 2, 4, 0, 3>> /\ Len(calls) = 2
    /\ calls[2].timeMin.month = 2 /\ calls[2].timeMin.day = 23
    /\ calls[2].timeMax.month = 4 /\ calls[2].timeMax.day = 15

\* C6: MonthEvents answers a method other than GET with 405 and a GET with
\* an empty date with 403, each time with one response and no backend
\* call; the method check comes first.
C6_MonthGuards ==
    /\ (OnMonth /\ request.method # "GET")
          => Answered(StatusMethodNotAllowed) /\ Len(calls) = 0
    /\ (OnMonth /\ request.method = "GET" /\ Len(request.date) = 0)
          => Answered(StatusForbidden) /\ Len(calls) = 0

C6_Witness ==
    /\ OnMonth /\ request.method = "POST" /\ Len(request.date) = 0
    /\ Answered(StatusMethodNotAllowed)

\* C7: a GET on the single-event route makes exactly one backend get call,
\* then answers 200 with the raw provider event if it succeeded and 404
\* with no body if it failed.
C7_FetchAnswers ==
    (OnEvent /\ request.method = "GET")
    => /\ Len(calls) = 1
       /\ calls[1].api = "Events.Get"
       /\ IF calls[1].ok
          THEN Answered(StatusOK) /\ Payload = Stored(store, request.id)
          ELSE Answered(StatusNotFound) /\ Len(responses[1].body) = 0

\* the answer of a write: 201 or 200 with the id-only projection when the
\* backend call succeeded, 500 with the backend's error text when not
WriteAnswered(okStatus) ==
    IF calls[1].ok
    THEN /\ Answered(okStatus)
         /\ Payload.Id \in DOMAIN store
         /\ Payload = [ZeroEvent EXCEPT !.Id = Payload.Id]
    ELSE /\ Answered(StatusInternalServerError)
         /\ Payload.error = BackendErrText

\* C8 as stated: every POST makes exactly one insert call, after a decode
\* failure the mapper runs on zero-valued fields, and the answer is 201
\* with the id or 500 with the backend's error text.
C8_InsertOnceOnZeroFields ==
    (OnEvent /\ request.method = "POST")
    => /\ Len(calls) = 1 /\ calls[1].api = "Events.Insert"
       /\ Len(decoded) = 1
       /\ decoded[1].err => /\ decoded[1].val = ZeroNewEvent
                            /\ calls[1].evt = ZeroEvent
       /\ WriteAnswered(StatusCreated)

\* C8 amended: every POST makes exactly one insert call, also after a
\* decode failure, when the mapper runs on the fields that did decode (the
\* others zero-valued); the decode error is not returned, and the answer is
\* 201 with the id or 500 with the backend's error text.
C8_InsertOnceOnDecodedFields ==
    (OnEvent /\ request.method = "POST")
    => /\ Len(calls) = 1 /\ calls[1].api = "Events.Insert"
       /\ Len(decoded) = 1
       /\ Sparse(decoded[1].val, calls[1].evt)
       /\ WriteAnswered(StatusCreated)

C8_Witness ==
    /\ OnEvent /\ request.method = "POST" /\ Len(decoded) = 1 /\ Len(calls) = 1
    /\ decoded[1].err
    /\ decoded[1].val.Summary = "Standup"
    /\ calls[1].ok
    /\ Answered(StatusCreated)

\* C9: in a 200 month listing every display event's id, attendees,
\* description, location and summary are those of the stored provider
\* event.
C9_ListingCopiesFields ==
    (OnMonth /\ Answered(StatusOK))
    => \A k \in 1..Len(Payload) :
         /\ Payload[k].ID \in DOMAIN store
         /\ Payload[k].Attendees = store[Payload[k].ID].Attendees
         /\ Payload[k].Description = store[Payload[k].ID].Description
         /\ Payload[k].Location = store[Payload[k].ID].Location
         /\ Payload[k].Summary = store[Payload[k].ID].Summary

\* C10: Event runs exactly the handler of the method; for a method other
\* than GET, POST, PATCH and DELETE no handler runs, no backend call is
\* made and no response is written.
C10_DispatchByMethod ==
    OnEvent
    => /\ request.method = "GET" => handlers = <<"fetchEvent">>
       /\ request.method = "POST" => handlers = <<"createEvent">>
       /\ request.method = "PATCH" => handlers = <<"updateEvent">>
       /\ request.method = "DELETE" => handlers = <<"deleteEvent">>
       /\ request.method \notin {"GET", "POST", "PATCH", "DELETE"}
            => /\ Len(handlers) = 0 /\ Len(calls) = 0 /\ Len(responses) = 0
               /\ outcome = "returned"

C10_Witness ==
    /\ OnEvent /\ request.method = "PUT"
    /\ Len(handlers) = 0 /\ Len(responses) = 0 /\ alive

====
